---- MODULE Spec2Model ----
(***************************************************************************)
(* A model of convert.py (kidmin/ccadb-certificates-tabular): main() reads *)
(* the CCADB "AllCertificateRecordsCSVFormatv2" export twice.  Pass 1      *)
(* records every certificate and its parent, the CA forest is built and    *)
(* "is_trusted" is pushed from the forest roots to their descendants, and  *)
(* pass 2 canonicalizes every data row, adds the derived columns and       *)
(* appends the row to the sheet; the workbook is saved at the very end.    *)
(*                                                                         *)
(* Python values are modelled as follows.  A str is the tuple of its       *)
(* characters ('' is <<>>); True, False and None are the TLA+ strings      *)
(* "True", "False" and "None"; an int is an integer; a list is a tuple     *)
(* indexed from 1 (the operators At, Pop, Insert and Slice take Python's   *)
(* 0-based indices); a set is a set; a dict is a function.                 *)
(***************************************************************************)
EXTENDS Integers, Sequences, FiniteSets, TLC

VARIABLES
    csv_file,            \* the lines of AllCertificateRecordsCSVFormatv2 (never written)
    pc,                  \* the position of main()
    err,                 \* the exception that ended main(), when pc = "error"
    num_records,         \* main(): num_records
    cert_by_sfid,        \* main(): cert_by_sfid, sfid -> CACertificate
    cert_forest_edges,   \* main(): cert_forest_edges, list of (parent, child)
    cert_forest_roots,   \* main(): cert_forest_roots
    hier_stack,          \* main(): hier_stack, one frame of ids per depth
    header,              \* main(): header, as appended to the sheet
    row_no,              \* main(): row_no, the CSV line of the last row read in pass 2
    sheet,               \* the rows appended to the sheet 'AllCertificateRecords'
    country_cache,       \* the memo of @cache get_country_code
    saved                \* whether book.save('CCADB-certificates.xlsx') has run

vars == <<csv_file, pc, err, num_records, cert_by_sfid, cert_forest_edges,
          cert_forest_roots, hier_stack, header, row_no, sheet, country_cache, saved>>

-----------------------------------------------------------------------------
(* Bounds of the model and constants of the program *)

NumIds == 2
MaxLines == 2
MaxRing == 3
MaxChain == 8
MaxRichLines == 2

RAW_WIDTH == 81
MAX_DEPTH == 7

-----------------------------------------------------------------------------
(* Python primitives *)

None == "None"
PyBool(b) == IF b THEN "True" ELSE "False"

At(list, i) == list[i + 1]
Pop(list, i) == [j \in 1..(Len(list) - 1) |-> IF j <= i THEN list[j] ELSE list[j + 1]]
Insert(list, i, x) ==
    LET k == IF i > Len(list) THEN Len(list) ELSE i
    IN  [j \in 1..(Len(list) + 1) |->
            IF j <= k THEN list[j] ELSE IF j = k + 1 THEN x ELSE list[j - 1]]
Slice(list, a, b) ==
    LET hi == IF b > Len(list) THEN Len(list) ELSE b
    IN  IF a >= hi THEN <<>> ELSE [j \in 1..(hi - a) |-> list[a + j]]

EmptyDict == [k \in {} |-> None]
Put(d, k, v) == [x \in (DOMAIN d) \cup {k} |-> IF x = k THEN v ELSE d[x]]

LOWERCASE == <<"a", "b", "c", "d", "e", "f", "g", "h", "i", "j", "k", "l", "m",
               "n", "o", "p", "q", "r", "s", "t", "u", "v", "w", "x", "y", "z">>
UPPERCASE == <<"A", "B", "C", "D", "E", "F", "G", "H", "I", "J", "K", "L", "M",
               "N", "O", "P", "Q", "R", "S", "T", "U", "V", "W", "X", "Y", "Z">>
HEXDIGITS == <<"0", "1", "2", "3", "4", "5", "6", "7", "8", "9",
               "a", "b", "c", "d", "e", "f">>

IndexIn(alphabet, c) ==
    IF \E i \in DOMAIN alphabet : alphabet[i] = c
    THEN CHOOSE i \in DOMAIN alphabet : alphabet[i] = c
    ELSE 0

UpperOf == [c \in {LOWERCASE[i] : i \in DOMAIN LOWERCASE} |-> UPPERCASE[IndexIn(LOWERCASE, c)]]
LowerOf == [c \in {UPPERCASE[i] : i \in DOMAIN UPPERCASE} |-> LOWERCASE[IndexIn(UPPERCASE, c)]]
UpperChar(c) == IF c \in DOMAIN UpperOf THEN UpperOf[c] ELSE c
LowerChar(c) == IF c \in DOMAIN LowerOf THEN LowerOf[c] ELSE c

\* str.upper(), str.lower(), str.capitalize(), str.replace('.', '-'), str.count
Upper(s) == [i \in DOMAIN s |-> UpperChar(s[i])]
Lower(s) == [i \in DOMAIN s |-> LowerChar(s[i])]
Capitalize(s) == [i \in DOMAIN s |-> IF i = 1 THEN UpperChar(s[i]) ELSE LowerChar(s[i])]
ReplaceDots(s) == [i \in DOMAIN s |-> IF s[i] = "." THEN "-" ELSE s[i]]
Count(s, c) == Cardinality({i \in DOMAIN s : s[i] = c})

-----------------------------------------------------------------------------
(* String literals of the program *)

ROOT_CERTIFICATE ==
    <<"R", "o", "o", "t", " ", "C", "e", "r", "t", "i", "f", "i", "c", "a", "t", "e">>
INTERMEDIATE_CERTIFICATE ==
    <<"I", "n", "t", "e", "r", "m", "e", "d", "i", "a", "t", "e", " ",
      "C", "e", "r", "t", "i", "f", "i", "c", "a", "t", "e">>
INCLUDED == <<"I", "n", "c", "l", "u", "d", "e", "d">>
LOOP_DETECTED == "loop detected while CA tree walk"
UNEXPECTED_NUMBER == "unexpected number of rows"

NoError == [exc |-> "", msg |-> "", len |-> 0, line |-> 0]
RuntimeError(msg, len, line) == [exc |-> "RuntimeError", msg |-> msg, len |-> len, line |-> line]
IndexError == [exc |-> "IndexError", msg |-> "list index out of range", len |-> 0, line |-> 0]

-----------------------------------------------------------------------------
(* The input: lines of the CSV file.  A line is kept as its field count,   *)
(* the fields that differ from the column's filler, and the letter of its  *)
(* fillers ("H" in the header line: a column name; "v" in a data line);    *)
(* csv.reader yields the full list of fields (CsvRow).                     *)

DigitChar(n) == HEXDIGITS[n + 1]
ColumnTag(letter, i) == <<letter, DigitChar(i \div 10), DigitChar(i % 10)>>

\* Columns canonicalize() and the status test read as typed text: their filler is ''
BOOL_COLUMNS == {19, 24, 62, 65, 68, 74, 75, 76, 77}
KEYID_COLUMNS == {17, 18}
DATE_COLUMNS == {15, 16, 27, 28, 29, 32, 33, 34, 37, 38, 39, 42, 43, 44, 47, 48, 49,
                 52, 53, 54, 57, 58, 59, 64, 67, 70}
STATUS_COLUMNS == {7, 8, 9, 10}
TypedColumns == BOOL_COLUMNS \cup KEYID_COLUMNS \cup DATE_COLUMNS \cup STATUS_COLUMNS \cup {22}

Field(line, i) ==
    IF i \in DOMAIN line.cells THEN line.cells[i]
    ELSE IF line.fill = "v" /\ i \in TypedColumns THEN <<>>
    ELSE ColumnTag(line.fill, i)

CsvRow(line) == [j \in 1..line.width |-> Field(line, j - 1)]

HeaderLine == [width |-> RAW_WIDTH, fill |-> "H", cells |-> EmptyDict]

Id(i) == <<"I", DigitChar(i)>>
Ids == {Id(i) : i \in 1..NumIds}
NOT_INCLUDED == <<"N", "o", "t", " ", "I", "n", "c", "l", "u", "d", "e", "d">>

Kinds == {"inter", "rootIn", "rootOut"}

\* A well-formed line of a certificate: id, parent id, record type, the four statuses
CertLine(sfid, parent, kind) ==
    [width |-> RAW_WIDTH, fill |-> "v",
     cells |-> (1 :> sfid) @@ (3 :> parent)
               @@ (5 :> IF kind = "inter" THEN INTERMEDIATE_CERTIFICATE ELSE ROOT_CERTIFICATE)
               @@ (7 :> IF kind = "inter" THEN <<>> ELSE NOT_INCLUDED)
               @@ (8 :> IF kind = "inter" THEN <<>> ELSE NOT_INCLUDED)
               @@ (9 :> IF kind = "inter" THEN <<>> ELSE NOT_INCLUDED)
               @@ (10 :> IF kind = "rootIn" THEN INCLUDED
                         ELSE IF kind = "rootOut" THEN NOT_INCLUDED ELSE <<>>)]

\* Every list of at most MaxLines lines over NumIds ids, any parent (an id of the
\* file, an id missing from it, or ''), any kind; ids are opaque, so only the lists
\* that introduce them in the order Id(1), Id(2), ... are kept.
IdsUsed(lines) == {Field(lines[i], 1) : i \in DOMAIN lines}
RECURSIVE GraphInputs(_)
GraphInputs(n) ==
    IF n = 0 THEN {<<>>}
    ELSE LET shorter == GraphInputs(n - 1)
         IN  shorter \cup
             {Append(lines, CertLine(Id(i), p, k)) :
                 lines \in {l \in shorter : Len(l) = n - 1},
                 i \in 1..NumIds, p \in Ids \cup {<<>>}, k \in Kinds}
RestrictedGrowth(lines) ==
    \A j \in DOMAIN lines :
        \E i \in 1..NumIds :
            /\ Field(lines[j], 1) = Id(i)
            /\ i <= Cardinality(IdsUsed(SubSeq(lines, 1, j - 1))) + 1
GraphFamily == {lines \in GraphInputs(MaxLines) : RestrictedGrowth(lines)}

\* One certificate recorded twice, under two issuers
TwoIssuerFamily ==
    {<<CertLine(Id(1), <<>>, k1), CertLine(Id(2), <<>>, k2),
       CertLine(Id(3), p3, "inter"), CertLine(Id(3), p4, "inter")>> :
        k1 \in Kinds, k2 \in Kinds, p3 \in {Id(1), Id(2)}, p4 \in {Id(1), Id(2)}}

\* Chains: certificate i is issued by certificate i - 1, or its issuer is absent
ChainLines(n, kind, cut) ==
    [i \in 1..n |->
        CertLine(Id(i), IF i = 1 \/ i \in cut THEN <<>> ELSE Id(i - 1),
                 IF i = 1 THEN kind ELSE "inter")]
ChainFamily ==
    {ChainLines(n, kind, cut) :
        n \in 1..MaxChain, kind \in Kinds, cut \in SUBSET {MaxChain - 1, MaxChain}}

\* Rings: certificate i is issued by certificate i + 1 and the last one by the first
RingLines(n, kinds) ==
    [i \in 1..n |-> CertLine(Id(i), IF i = n THEN Id(1) ELSE Id(i + 1), kinds[i])]
RingFamily == {RingLines(n, kinds) : n \in 1..MaxRing, kinds \in [1..MaxRing -> Kinds]}

\* Lines with every kind of content pass 2 transforms, and with other field counts
TRUE_UPPER == <<"T", "R", "U", "E">>
RichCells ==
    << \* a root included in two stores
       (1 :> <<"R", "1">>) @@ (3 :> <<>>) @@ (5 :> ROOT_CERTIFICATE)
       @@ (7 :> NOT_INCLUDED) @@ (8 :> Upper(INCLUDED)) @@ (9 :> Lower(INCLUDED)) @@ (10 :> <<>>)
       @@ (15 :> <<"2", "0", "2", "0", ".", "0", "1", ".", "3", "1">>)
       @@ (16 :> <<"2", "0", "3", "1", "-", "1", "2", "-", "0", "5">>)
       @@ (17 :> <<"A", "Q", "I", "D">>) @@ (18 :> <<"/", "+", "8", "=">>)
       @@ (19 :> TRUE_UPPER) @@ (24 :> Lower(TRUE_UPPER)) @@ (62 :> <<"T", "r", "u", "e">>)
       @@ (65 :> <<"F", "A", "L", "S", "E">>) @@ (74 :> TRUE_UPPER) @@ (77 :> <<"y", "e", "s">>)
       @@ (22 :> <<"[", "\"", "a", "\"", ",", "\"", "b", "\"", ",", "\"", "c", "\"", "]">>)
       @@ (78 :> <<"J", "a", "p", "a", "n">>),
       \* an intermediate issued by that root
       (1 :> <<"R", "2">>) @@ (3 :> <<"R", "1">>) @@ (5 :> INTERMEDIATE_CERTIFICATE)
       @@ (17 :> <<"q", "r", "s", "=">>) @@ (18 :> <<"/", "w", "=", "=">>)
       @@ (19 :> Lower(TRUE_UPPER)) @@ (75 :> TRUE_UPPER)
       @@ (27 :> <<"1", "9", "9", "9", ".", "1", "0", ".", "0", "9">>)
       @@ (22 :> <<"[", "\"", "u", "\"", ",", " ", "\"", "v", "w", "\"", "]">>)
       @@ (78 :> <<"U", "S">>),
       \* an intermediate issued by that intermediate, itself marked as included
       (1 :> <<"R", "3">>) @@ (3 :> <<"R", "2">>) @@ (5 :> INTERMEDIATE_CERTIFICATE)
       @@ (10 :> <<"i", "N", "C", "L", "U", "D", "E", "D">>)
       @@ (76 :> TRUE_UPPER) @@ (70 :> <<"2", "0", "2", "4", ".", "0", "2", ".", "2", "9">>)
       @@ (22 :> <<"[", "]">>)
       @@ (78 :> <<"c", "z", "e", "c", "h", "i", "a">>),
       \* a root included in no store, from an unknown country
       (1 :> <<"R", "4">>) @@ (3 :> <<>>) @@ (5 :> ROOT_CERTIFICATE)
       @@ (7 :> NOT_INCLUDED) @@ (8 :> <<"R", "e", "m", "o", "v", "e", "d">>)
       @@ (9 :> NOT_INCLUDED) @@ (10 :> <<"I", "n", "c", "l", "u", "d", "e", "d", " ">>)
       @@ (78 :> <<"U+00C5", "x">>) >>
Widths == {5, RAW_WIDTH - 1, RAW_WIDTH, RAW_WIDTH + 1}
RichLine(v, width) ==
    [width |-> width, fill |-> "v", cells |-> [i \in {c \in DOMAIN RichCells[v] : c < width} |-> RichCells[v][i]]]
RichFamily ==
    UNION {[1..n -> {RichLine(v, w) : v \in DOMAIN RichCells, w \in Widths}] : n \in 1..MaxRichLines}

\* The files of the runs on the sheet: lines with every kind of cell, and the
\* trees, rings and chains that make the walk raise or not
SheetInputs == TwoIssuerFamily \cup RingFamily \cup ChainFamily \cup RichFamily
Inputs == GraphFamily \cup SheetInputs

-----------------------------------------------------------------------------
(* main(), pass 1 and the CA tree *)

CACertificate(is_root, is_trusted) ==
    [is_root |-> is_root, is_trusted |-> is_trusted, children |-> {}]

\* any(e.capitalize() == 'Included' for e in row[7:11])
IncludedInAny(row) ==
    \E i \in DOMAIN Slice(row, 7, 11) : Capitalize(Slice(row, 7, 11)[i]) = INCLUDED

Pass1Trust(row, is_root) ==
    IF is_root THEN PyBool(IncludedInAny(row)) ELSE None

InitOf(inputs) ==
    /\ csv_file \in {<<HeaderLine>> \o lines : lines \in inputs}
    /\ pc = "pass1"
    /\ err = NoError
    /\ num_records = 0
    /\ cert_by_sfid = EmptyDict
    /\ cert_forest_edges = <<>>
    /\ cert_forest_roots = {}
    /\ hier_stack = <<>>
    /\ header = <<>>
    /\ row_no = 0
    /\ sheet = <<>>
    /\ country_cache = EmptyDict
    /\ saved = FALSE

Init == InitOf(Inputs)
SheetInit == InitOf(SheetInputs)

\* row[1], row[3] or row[5] of a row with fewer than six fields
Pass1ShortRow ==
    /\ pc = "pass1"
    /\ num_records < Len(csv_file)
    /\ Len(CsvRow(csv_file[num_records + 1])) < 6
    /\ pc' = "error"
    /\ err' = IndexError
    /\ num_records' = num_records + 1
    /\ UNCHANGED <<csv_file, cert_by_sfid, cert_forest_edges, cert_forest_roots,
                   hier_stack, header, row_no, sheet, country_cache, saved>>

Pass1Row ==
    /\ pc = "pass1"
    /\ num_records < Len(csv_file)
    /\ LET row == CsvRow(csv_file[num_records + 1])
       IN  /\ Len(row) >= 6
           /\ LET sfid == At(row, 1)
                  paernt_sfid == At(row, 3)
                  is_root == (At(row, 5) = ROOT_CERTIFICATE)
              IN  /\ cert_by_sfid' =
                        Put(cert_by_sfid, sfid, CACertificate(is_root, Pass1Trust(row, is_root)))
                  /\ cert_forest_edges' = Append(cert_forest_edges, <<paernt_sfid, sfid>>)
    /\ num_records' = num_records + 1
    /\ UNCHANGED <<csv_file, pc, err, cert_forest_roots, hier_stack, header, row_no,
                   sheet, country_cache, saved>>

\* The loop over cert_forest_edges: the certificates with their children, and the roots
RECURSIVE BuildForest(_, _, _)
BuildForest(edges, certs, roots) ==
    IF edges = <<>> THEN [certs |-> certs, roots |-> roots]
    ELSE LET parent_sfid == Head(edges)[1]
             child_sfid == Head(edges)[2]
         IN  IF parent_sfid \in DOMAIN certs
             THEN BuildForest(Tail(edges),
                      [certs EXCEPT ![parent_sfid].children = @ \cup {child_sfid}], roots)
             ELSE BuildForest(Tail(edges), certs, roots \cup {child_sfid})

BuildTree ==
    /\ pc = "pass1"
    /\ num_records = Len(csv_file)
    /\ LET forest == BuildForest(cert_forest_edges, cert_by_sfid, {})
       IN  /\ cert_by_sfid' = forest.certs
           /\ cert_forest_roots' = forest.roots
           /\ hier_stack' = <<forest.roots>>
    /\ cert_forest_edges' = <<>>
    /\ pc' = "walk"
    /\ UNCHANGED <<csv_file, err, num_records, header, row_no, sheet, country_cache, saved>>

-----------------------------------------------------------------------------
(* main(), the walk of the CA tree.  list(a set) has no specified order: a *)
(* frame is kept as the set of ids still in the list and the id taken from *)
(* the end of the list is any of them.                                     *)

\* Mutant of DepthExceeded: > written as >=
DepthExceededAtCeiling(stack) == Len(stack) >= MAX_DEPTH

DepthExceeded(stack) == Len(stack) > MAX_DEPTH

\* Mutant of ChildTrust: the test of the child's is_root is forgotten
ChildTrustUnguarded(certs, sfid, child_sfid) == certs[sfid].is_trusted

\* The is_trusted of child_sfid after the visit of sfid, one of whose children it is
ChildTrust(certs, sfid, child_sfid) ==
    IF ~certs[child_sfid].is_root
    THEN certs[sfid].is_trusted
    ELSE certs[child_sfid].is_trusted

\* Mutant of FramesAfterVisit: hier_stack[-1].pop() is forgotten
FramesAfterVisitNoPop(stack, sfid, next_children) ==
    IF next_children # {} THEN Append(stack, next_children) ELSE stack

\* The frames after the visit of sfid, taken from the top frame
FramesAfterVisit(stack, sfid, next_children) ==
    LET popped == [stack EXCEPT ![Len(stack)] = @ \ {sfid}]
    IN  IF next_children # {} THEN Append(popped, next_children) ELSE popped

WalkRaise ==
    /\ pc = "walk"
    /\ hier_stack # <<>>
    /\ DepthExceeded(hier_stack)
    /\ pc' = "error"
    /\ err' = RuntimeError(LOOP_DETECTED, 0, 0)
    /\ UNCHANGED <<csv_file, num_records, cert_by_sfid, cert_forest_edges, cert_forest_roots,
                   hier_stack, header, row_no, sheet, country_cache, saved>>

WalkVisit ==
    /\ pc = "walk"
    /\ hier_stack # <<>>
    /\ ~DepthExceeded(hier_stack)
    /\ hier_stack[Len(hier_stack)] # {}
    /\ \E sfid \in hier_stack[Len(hier_stack)] :
          LET next_children == cert_by_sfid[sfid].children
          IN  /\ cert_by_sfid' =
                    [c \in DOMAIN cert_by_sfid |->
                        IF c \in next_children
                        THEN [cert_by_sfid[c] EXCEPT
                                 !.is_trusted = ChildTrust(cert_by_sfid, sfid, c)]
                        ELSE cert_by_sfid[c]]
              /\ hier_stack' = FramesAfterVisit(hier_stack, sfid, next_children)
    /\ UNCHANGED <<csv_file, pc, err, num_records, cert_forest_edges, cert_forest_roots,
                   header, row_no, sheet, country_cache, saved>>

WalkPopFrame ==
    /\ pc = "walk"
    /\ hier_stack # <<>>
    /\ ~DepthExceeded(hier_stack)
    /\ hier_stack[Len(hier_stack)] = {}
    /\ hier_stack' = SubSeq(hier_stack, 1, Len(hier_stack) - 1)
    /\ UNCHANGED <<csv_file, pc, err, num_records, cert_by_sfid, cert_forest_edges,
                   cert_forest_roots, header, row_no, sheet, country_cache, saved>>

WalkEnd ==
    /\ pc = "walk"
    /\ hier_stack = <<>>
    /\ cert_forest_roots' = {}
    /\ pc' = "pass2"
    /\ UNCHANGED <<csv_file, err, num_records, cert_by_sfid, cert_forest_edges,
                   hier_stack, header, row_no, sheet, country_cache, saved>>

-----------------------------------------------------------------------------
(* canonicalize(row) and what it calls *)

BASE64 == <<"A", "B", "C", "D", "E", "F", "G", "H", "I", "J", "K", "L", "M",
            "N", "O", "P", "Q", "R", "S", "T", "U", "V", "W", "X", "Y", "Z",
            "a", "b", "c", "d", "e", "f", "g", "h", "i", "j", "k", "l", "m",
            "n", "o", "p", "q", "r", "s", "t", "u", "v", "w", "x", "y", "z",
            "0", "1", "2", "3", "4", "5", "6", "7", "8", "9", "+", "/">>
Sextet(c) == IF c = "=" THEN 0 ELSE IndexIn(BASE64, c) - 1

\* base64.b64decode(s) of padded base64 text: the bytes, as integers
RECURSIVE B64Decode(_)
B64Decode(s) ==
    IF Len(s) < 4 THEN <<>>
    ELSE LET n == Sextet(s[1]) * 262144 + Sextet(s[2]) * 4096 + Sextet(s[3]) * 64 + Sextet(s[4])
             three == <<n \div 65536, (n \div 256) % 256, n % 256>>
             group == IF s[3] = "=" THEN SubSeq(three, 1, 1)
                      ELSE IF s[4] = "=" THEN SubSeq(three, 1, 2)
                      ELSE three
         IN  group \o B64Decode(SubSeq(s, 5, Len(s)))

\* bytes.hex(':')
RECURSIVE HexColon(_)
HexColon(bytes) ==
    IF bytes = <<>> THEN <<>>
    ELSE LET pair == <<HEXDIGITS[(bytes[1] \div 16) + 1], HEXDIGITS[(bytes[1] % 16) + 1]>>
         IN  IF Len(bytes) = 1 THEN pair ELSE pair \o <<":">> \o HexColon(Tail(bytes))

\* json.loads(s) of a JSON array of strings without escapes: the list of the strings
RECURSIVE JsonStrings(_, _, _, _)
JsonStrings(s, i, in_string, current) ==
    IF i > Len(s) THEN <<>>
    ELSE IF in_string
         THEN IF s[i] = "\""
              THEN <<current>> \o JsonStrings(s, i + 1, FALSE, <<>>)
              ELSE JsonStrings(s, i + 1, TRUE, Append(current, s[i]))
         ELSE JsonStrings(s, i + 1, s[i] = "\"", <<>>)
JsonLoads(s) == JsonStrings(s, 1, FALSE, <<>>)

\* '\n'.join(items)
RECURSIVE JoinLines(_)
JoinLines(items) ==
    IF items = <<>> THEN <<>>
    ELSE IF Len(items) = 1 THEN items[1]
    ELSE items[1] \o <<"\n">> \o JoinLines(Tail(items))

TRUE_TEXT == <<"T", "R", "U", "E">>

CanonicalCell(i, value) ==
    IF i \in BOOL_COLUMNS THEN PyBool(Upper(value) = TRUE_TEXT)
    ELSE IF i \in KEYID_COLUMNS
         THEN IF value # <<>> THEN HexColon(B64Decode(value)) ELSE value
    ELSE IF i \in DATE_COLUMNS THEN ReplaceDots(value)
    ELSE IF i = 22
         THEN IF value # <<>> THEN JoinLines(JsonLoads(value)) ELSE value
    ELSE value

canonicalize(row) == [j \in DOMAIN row |-> CanonicalCell(j - 1, row[j])]

-----------------------------------------------------------------------------
(* get_country_code(country_name); the tables stand for countrycode's data *)

ASCII == {LOWERCASE[i] : i \in DOMAIN LOWERCASE} \cup {UPPERCASE[i] : i \in DOMAIN UPPERCASE}
         \cup {HEXDIGITS[i] : i \in 1..10} \cup {" ", "-", ".", "(", ")", "'", ","}
IsAscii(s) == \A i \in DOMAIN s : s[i] \in ASCII

ISO2C == << <<"J", "P">>, <<"U", "S">>, <<"C", "Z">> >>
COUNTRY_NAME == << <<"J", "a", "p", "a", "n">>,
                   <<"U", "n", "i", "t", "e", "d", " ", "S", "t", "a", "t", "e", "s">>,
                   <<"C", "z", "e", "c", "h", " ", "R", "e", "p", "u", "b", "l", "i", "c">> >>
CLDR_SHORT == << << <<"J", "a", "p", "a", "n">>, <<"U", "S">>, <<"C", "z", "e", "c", "h", "i", "a">> >>,
                 << <<"J", "a", "p", "o", "n">>, <<"E", "U", "A">>, <<"C", "h", "e", "q", "u", "i", "a">> >> >>

\* countrycode.countrycode(name, origin='country.name', destination='iso2c')
CountryCodeOf(country_name) ==
    LET hits == {pos \in DOMAIN COUNTRY_NAME : Lower(COUNTRY_NAME[pos]) = Lower(country_name)}
    IN  IF hits = {} THEN None ELSE ISO2C[CHOOSE pos \in hits : \A q \in hits : pos <= q]

\* The first (table, position) whose short name equals country_name, ignoring case
ShortNameHits(country_name) ==
    {tp \in {<<t, pos>> : t \in DOMAIN CLDR_SHORT, pos \in DOMAIN ISO2C} :
        Lower(CLDR_SHORT[tp[1]][tp[2]]) = Lower(country_name)}
FirstHit(hits) ==
    CHOOSE tp \in hits :
        \A other \in hits : tp[1] < other[1] \/ (tp[1] = other[1] /\ tp[2] <= other[2])

get_country_code(country_name) ==
    IF Len(country_name) = 2 /\ IsAscii(country_name) THEN country_name
    ELSE IF CountryCodeOf(country_name) # None THEN CountryCodeOf(country_name)
    ELSE IF ShortNameHits(country_name) # {}
         THEN ISO2C[FirstHit(ShortNameHits(country_name))[2]]
    ELSE <<>>

-----------------------------------------------------------------------------
(* main(), pass 2 *)

X_COUNTRY == <<"X", "-", "C", "o", "u", "n", "t", "r", "y", " ", "(", "a", "l", "p", "h", "a", "-", "2", ")">>
X_CRT_SH_LINK == <<"X", "-", "c", "r", "t", ".", "s", "h", " ", "l", "i", "n", "k">>
X_NUMBER_OF_ITEMS ==
    <<"X", "-", "N", "u", "m", "b", "e", "r", " ", "o", "f", " ", "i", "t", "e", "m", "s", " ",
      "i", "n", " ", "\"", "J", "S", "O", "N", " ", "A", "r", "r", "a", "y", " ", "o", "f", " ",
      "P", "a", "r", "t", "i", "t", "i", "o", "n", "e", "d", " ", "C", "R", "L", "s", "\"">>
X_CHAINS_UP ==
    <<"X", "-", "C", "h", "a", "i", "n", "s", " ", "u", "p", " ", "t", "o", " ", "R", "o", "o", "t", "s", " ",
      "I", "n", "c", "l", "u", "d", "e", "d", " ", "i", "n", " ", "a", "n", "y", " ",
      "R", "o", "o", "t", " ", "S", "t", "o", "r", "e", "?">>
X_INCLUDED ==
    <<"X", "-", "I", "n", "c", "l", "u", "d", "e", "d", " ", "i", "n", " ", "a", "n", "y", " ",
      "R", "o", "o", "t", " ", "S", "t", "o", "r", "e", "?">>
CRT_SH_URL == <<"h", "t", "t", "p", "s", ":", "/", "/", "c", "r", "t", ".", "s", "h", "/", "?",
                "s", "h", "a", "2", "5", "6", "=">>

\* The moves and insertions of the header, in the order of the code
HeaderMoveCountry(h) == Insert(Pop(h, 78), 80, At(h, 78))
HeaderLayout(raw_header) ==
    Insert(Insert(Insert(HeaderMoveCountry(Append(Append(raw_header, X_COUNTRY), X_CRT_SH_LINK)),
                         23, X_NUMBER_OF_ITEMS),
                  12, X_CHAINS_UP),
           12, X_INCLUDED)

\* The value of 'X-Chains up to Roots Included in any Root Store?'
ChainsUp(row, certs) ==
    IF At(row, 5) = INTERMEDIATE_CERTIFICATE THEN certs[At(row, 1)].is_trusted ELSE None

\* The moves and insertions of a canonicalized row, in the order of the code
MoveCountry(row) == Append(Pop(row, 78), At(row, 78))
AppendCountryCode(row) == Append(row, get_country_code(At(row, 80)))
AppendLink(row) == Append(row, CRT_SH_URL \o At(row, 13))
InsertNumberOfItems(row) ==
    IF At(row, 22) # <<>>
    THEN Insert(row, 23, Count(At(row, 22), "\n") + 1)
    ELSE Insert(row, 23, <<>>)
InsertChainsUp(row, certs) == Insert(row, 12, ChainsUp(row, certs))
InsertIncluded(row) == Insert(row, 12, PyBool(IncludedInAny(row)))
\* Mutant of RowLayout: the two insertions at 12 in the other order
RowLayoutSwapped(row, certs) ==
    InsertChainsUp(InsertIncluded(
        InsertNumberOfItems(AppendLink(AppendCountryCode(MoveCountry(row))))), certs)

RowLayout(row, certs) ==
    InsertIncluded(InsertChainsUp(
        InsertNumberOfItems(AppendLink(AppendCountryCode(MoveCountry(row)))), certs))

\* datetime.date.fromisoformat(text) of 'YYYY-MM-DD'
Digits(text) ==
    IF text = <<>> THEN 0
    ELSE LET RECURSIVE Value(_)
             Value(n) == IF n = 0 THEN 0
                         ELSE Value(n - 1) * 10 + (IndexIn(HEXDIGITS, text[n]) - 1)
         IN  Value(Len(text))
FromIsoFormat(text) ==
    [year |-> Digits(SubSeq(text, 1, 4)), month |-> Digits(SubSeq(text, 6, 7)),
     day |-> Digits(SubSeq(text, 9, 10))]

\* The cells of the sheet: the value and the hyperlink (fonts, borders and number
\* formats are left out)
WriteOnlyCell(value) == [value |-> value, hyperlink |-> None]
SHEET_DATE_COLUMNS == {17, 18, 30, 31, 32, 35, 36, 37, 40, 41, 42, 45, 46, 47, 50, 51, 52,
                       55, 56, 57, 60, 61, 62, 67, 70, 73}
SheetCell(col_idx, value) ==
    IF col_idx \in SHEET_DATE_COLUMNS
    THEN WriteOnlyCell(IF value # <<>> THEN FromIsoFormat(value) ELSE None)
    ELSE IF col_idx = 85 THEN [value |-> "U+1F4DC", hyperlink |-> value]
    ELSE WriteOnlyCell(value)
SheetRow(row) == [j \in DOMAIN row |-> SheetCell(j - 1, row[j])]

HeaderCells(names) == [j \in DOMAIN names |-> WriteOnlyCell(names[j])]

\* What the loop body of pass 2 appends to the sheet for a row of RAW_WIDTH fields
EmittedRow(row, certs) == SheetRow(RowLayout(canonicalize(row), certs))

\* @cache: the argument and its result are kept
Remember(cache, country_name) == Put(cache, country_name, get_country_code(country_name))

\* Mutant of BadFieldCount: != written as <
BadFieldCountShort(row) == Len(row) < RAW_WIDTH

BadFieldCount(row) == Len(row) # RAW_WIDTH

Pass2Header ==
    /\ pc = "pass2"
    /\ row_no = 0
    /\ header' = HeaderCells(HeaderLayout(CsvRow(csv_file[1])))
    /\ sheet' = Append(sheet, header')
    /\ row_no' = 1
    /\ UNCHANGED <<csv_file, pc, err, num_records, cert_by_sfid, cert_forest_edges,
                   cert_forest_roots, hier_stack, country_cache, saved>>

\* Mutant of Pass2WrongCount: the row is skipped instead of raising
Pass2WrongCountSkipped ==
    /\ pc = "pass2"
    /\ row_no >= 1
    /\ row_no < Len(csv_file)
    /\ BadFieldCount(CsvRow(csv_file[row_no + 1]))
    /\ row_no' = row_no + 1
    /\ UNCHANGED <<csv_file, pc, err, num_records, cert_by_sfid, cert_forest_edges,
                   cert_forest_roots, hier_stack, header, sheet, country_cache, saved>>

Pass2WrongCount ==
    /\ pc = "pass2"
    /\ row_no >= 1
    /\ row_no < Len(csv_file)
    /\ BadFieldCount(CsvRow(csv_file[row_no + 1]))
    /\ row_no' = row_no + 1
    /\ pc' = "error"
    /\ err' = RuntimeError(UNEXPECTED_NUMBER, Len(CsvRow(csv_file[row_no + 1])), row_no + 1)
    /\ UNCHANGED <<csv_file, num_records, cert_by_sfid, cert_forest_edges, cert_forest_roots,
                   hier_stack, header, sheet, country_cache, saved>>

Pass2Row ==
    /\ pc = "pass2"
    /\ row_no >= 1
    /\ row_no < Len(csv_file)
    /\ ~BadFieldCount(CsvRow(csv_file[row_no + 1]))
    /\ sheet' = Append(sheet, EmittedRow(CsvRow(csv_file[row_no + 1]), cert_by_sfid))
    /\ country_cache' = Remember(country_cache, At(CsvRow(csv_file[row_no + 1]), 78))
    /\ row_no' = row_no + 1
    /\ UNCHANGED <<csv_file, pc, err, num_records, cert_by_sfid, cert_forest_edges,
                   cert_forest_roots, hier_stack, header, saved>>

\* add_metadata_sheet(...) and book.save('CCADB-certificates.xlsx')
SaveWorkbook ==
    /\ pc = "pass2"
    /\ row_no >= 1
    /\ row_no = Len(csv_file)
    /\ saved' = TRUE
    /\ pc' = "done"
    /\ UNCHANGED <<csv_file, err, num_records, cert_by_sfid, cert_forest_edges,
                   cert_forest_roots, hier_stack, header, row_no, sheet, country_cache>>

Next ==
    \/ Pass1ShortRow
    \/ Pass1Row
    \/ BuildTree
    \/ WalkRaise
    \/ WalkVisit
    \/ WalkPopFrame
    \/ WalkEnd
    \/ Pass2Header
    \/ Pass2WrongCount
    \/ Pass2Row
    \/ SaveWorkbook

Spec == Init /\ [][Next]_vars

\* The same program on the files of SheetInputs
SheetSpec == SheetInit /\ [][Next]_vars

\* The while loop of the walk keeps running: an iteration that can be taken is taken
WalkStep == WalkRaise \/ WalkVisit \/ WalkPopFrame \/ WalkEnd
FairSpec == Init /\ [][Next]_vars /\ WF_vars(WalkStep)

-----------------------------------------------------------------------------
(* The input as the claims speak of it, read off the file *)

FileIds == {Field(csv_file[i], 1) : i \in DOMAIN csv_file}
FileEdges == {<<Field(csv_file[i], 3), Field(csv_file[i], 1)>> : i \in DOMAIN csv_file}
FileChildren(sfid) == {e[2] : e \in {f \in FileEdges : f[1] = sfid}}
FileForestRoots == {e[2] : e \in {f \in FileEdges : f[1] \notin FileIds}}

\* The last line of an id is the one cert_by_sfid keeps
LastLineOf(sfid) ==
    csv_file[CHOOSE i \in DOMAIN csv_file :
                /\ Field(csv_file[i], 1) = sfid
                /\ \A j \in DOMAIN csv_file : Field(csv_file[j], 1) = sfid => j <= i]
FileIsRoot(sfid) == Field(LastLineOf(sfid), 5) = ROOT_CERTIFICATE
\* Equal but for the case of the letters
SameLetters(a, b) ==
    /\ Len(a) = Len(b)
    /\ \A i \in DOMAIN a : a[i] = b[i] \/ LowerChar(a[i]) = LowerChar(b[i])
FileIncluded(line) == \E c \in STATUS_COLUMNS : SameLetters(Field(line, c), INCLUDED)

\* The ids at each level of the walk, the forest roots being level 1
RECURSIVE LevelNodes(_)
LevelNodes(k) ==
    IF k = 1 THEN FileForestRoots
    ELSE UNION {FileChildren(sfid) : sfid \in LevelNodes(k - 1)}

\* What is reachable from a set of ids along parent -> child edges
RECURSIVE Closure(_)
Closure(nodes) ==
    LET more == nodes \cup UNION {FileChildren(sfid) : sfid \in nodes}
    IN  IF more = nodes THEN nodes ELSE Closure(more)
Reached == Closure(FileForestRoots)
FileHasCycle == \E sfid \in FileIds : sfid \in Closure(FileChildren(sfid))

\* The descendants of a root that have no root between them and it
RECURSIVE NonRootBelow(_)
NonRootBelow(nodes) ==
    LET more == nodes \cup
                UNION {{c \in FileChildren(sfid) : ~FileIsRoot(c)} : sfid \in nodes}
    IN  IF more = nodes THEN nodes ELSE NonRootBelow(more)
NearestRootOf(root_sfid) ==
    NonRootBelow({c \in FileChildren(root_sfid) : ~FileIsRoot(c)})

\* The first data line whose field count is not RAW_WIDTH (0: there is none)
BadLines == {i \in 2..Len(csv_file) : csv_file[i].width # RAW_WIDTH}
FirstBadLine == IF BadLines = {} THEN 0 ELSE CHOOSE i \in BadLines : \A j \in BadLines : i <= j

\* Pass 1 and the walk run as one function of the file, the id taken from a frame
\* being a fixed one: one of the orders main() may follow
RECURSIVE FilePass1(_, _, _)
FilePass1(i, certs, edges) ==
    IF i > Len(csv_file) THEN BuildForest(edges, certs, {})
    ELSE LET row == CsvRow(csv_file[i])
             is_root == (At(row, 5) = ROOT_CERTIFICATE)
         IN  FilePass1(i + 1,
                 Put(certs, At(row, 1), CACertificate(is_root, Pass1Trust(row, is_root))),
                 Append(edges, <<At(row, 3), At(row, 1)>>))
RECURSIVE FixedOrderWalk(_, _)
FixedOrderWalk(stack, certs) ==
    IF stack = <<>> THEN [raised |-> FALSE, certs |-> certs]
    ELSE IF DepthExceeded(stack) THEN [raised |-> TRUE, certs |-> certs]
    ELSE IF stack[Len(stack)] = {}
         THEN FixedOrderWalk(SubSeq(stack, 1, Len(stack) - 1), certs)
    ELSE LET sfid == CHOOSE x \in stack[Len(stack)] : TRUE
             next_children == certs[sfid].children
         IN  FixedOrderWalk(
                 FramesAfterVisit(stack, sfid, next_children),
                 [c \in DOMAIN certs |->
                     IF c \in next_children
                     THEN [certs[c] EXCEPT !.is_trusted = ChildTrust(certs, sfid, c)]
                     ELSE certs[c]])
FixedOrderResult ==
    LET forest == FilePass1(1, EmptyDict, <<>>)
    IN  FixedOrderWalk(<<forest.roots>>, forest.certs)

LoopError == pc = "error" /\ err.msg = LOOP_DETECTED
WrongCountError == pc = "error" /\ err.msg = UNEXPECTED_NUMBER
WalkCompleted == pc \in {"pass2", "done"} \/ WrongCountError

-----------------------------------------------------------------------------
(* The claims *)

\* C1: after a walk that ended without error, every node that is not a root and
\* is reachable from a root holds the is_trusted of its nearest root ancestor.
C1_NearestRootAncestor ==
    WalkCompleted =>
        \A root_sfid \in {r \in FileIds : FileIsRoot(r)} :
            \A sfid \in NearestRootOf(root_sfid) :
                cert_by_sfid[sfid].is_trusted = cert_by_sfid[root_sfid].is_trusted

\* C2: during the walk and after it, every node created with is_root = true holds
\* the is_trusted pass 1 computed for it: "True" iff one of the four status
\* columns of its line is 'Included', whatever the case of the letters.
C2_RootKeepsOwnFlag ==
    (pc = "walk" \/ LoopError \/ (pc = "pass2" /\ row_no = 0)) =>
        \A sfid \in DOMAIN cert_by_sfid :
            cert_by_sfid[sfid].is_root =>
                cert_by_sfid[sfid].is_trusted = PyBool(FileIncluded(LastLineOf(sfid)))

\* C2's case: a root lies in a frame pushed by the visit of a node whose is_trusted
\* differs from the root's own.
C2_Witness ==
    /\ pc = "walk"
    /\ \E d \in 2..Len(hier_stack) : \E root_sfid \in hier_stack[d] :
          /\ cert_by_sfid[root_sfid].is_root
          /\ \E sfid \in DOMAIN cert_by_sfid :
                /\ hier_stack[d] = cert_by_sfid[sfid].children
                /\ cert_by_sfid[sfid].is_trusted # cert_by_sfid[root_sfid].is_trusted

\* C3: after the walk, every node the walk never reached holds None.
C3_UnreachedIsNone ==
    WalkCompleted =>
        \A sfid \in (DOMAIN cert_by_sfid) \ Reached : cert_by_sfid[sfid].is_trusted = None

\* C4: no input whose edges contain a cycle gets through the walk without the
\* 'loop detected' error.
C4_CycleRaises == FileHasCycle => ~WalkCompleted

\* C5: whatever the order in which ids are taken from the forest roots and from
\* the children sets, the walk ends the same way (with or without the error) and,
\* without it, with the same is_trusted of every node: those of the fixed order.
C5_SameForEveryOrder ==
    /\ LoopError => FixedOrderResult.raised
    /\ (pc = "pass2" /\ row_no = 0) =>
          /\ ~FixedOrderResult.raised
          /\ \A sfid \in DOMAIN cert_by_sfid :
                cert_by_sfid[sfid].is_trusted = FixedOrderResult.certs[sfid].is_trusted

\* C6: pass 2 never goes past the first data line k whose field count is not 81:
\* the lines before k are canonicalized and appended to the sheet (each one is
\* checked in the state that follows its append), line k raises the error, which
\* names k and the count, and neither k nor a later line is ever appended.
C6_StopsAtFirstWrongCount ==
    (pc \in {"pass2", "done"} \/ WrongCountError) =>
        /\ WrongCountError =>
              /\ FirstBadLine # 0
              /\ row_no = FirstBadLine
              /\ err = RuntimeError(UNEXPECTED_NUMBER, csv_file[FirstBadLine].width, FirstBadLine)
              /\ Len(sheet) = FirstBadLine - 1
        /\ FirstBadLine # 0 =>
              /\ pc # "done"
              /\ row_no <= FirstBadLine
              /\ Len(sheet) < FirstBadLine
              /\ row_no = FirstBadLine => WrongCountError
        /\ ~WrongCountError => Len(sheet) = row_no
        /\ (~WrongCountError /\ row_no >= 2) =>
              sheet[row_no] = EmittedRow(CsvRow(csv_file[row_no]), cert_by_sfid)

\* C6's case: the error is raised at line 3, one field short, after line 2 was appended.
C6_Witness ==
    /\ WrongCountError
    /\ err.line = 3
    /\ err.len = RAW_WIDTH - 1
    /\ Len(sheet) = 2

\* C7: the workbook is saved only when pass 1, the walk and pass 2 over every data
\* line have ended without error, and never in a run that raised: the file then
\* holds no line of another field count and no node below level MAX_DEPTH.
C7_AllOrNothing ==
    /\ pc = "error" => ~saved
    /\ pc = "done" <=> saved
    /\ saved =>
          /\ err = NoError
          /\ num_records = Len(csv_file)
          /\ hier_stack = <<>>
          /\ row_no = Len(csv_file)
          /\ Len(sheet) = Len(csv_file)
          /\ BadLines = {}
          /\ LevelNodes(MAX_DEPTH + 1) = {}

\* C7's case: the workbook was saved after two data lines or more.
C7_Witness == saved /\ Len(csv_file) >= 3

\* The raw column a header name stands for (-1: none, the name is a derived one)
RawColumnOf(name) ==
    IF Len(name) = 3 /\ name[1] = "H" THEN Digits(SubSeq(name, 2, 3)) ELSE -1

\* What the sheet holds of a raw value: the canonical value, a date for a date column
SheetValueOf(i, value) ==
    IF i \in DATE_COLUMNS
    THEN IF value = <<>> THEN None ELSE FromIsoFormat(ReplaceDots(value))
    ELSE CanonicalCell(i, value)

\* The derived values of a raw row
NumberOfItems(raw) ==
    IF At(raw, 22) = <<>> \/ JsonLoads(At(raw, 22)) = <<>> THEN <<>>
    ELSE Len(JsonLoads(At(raw, 22)))
ChainsUpOf(raw) ==
    IF At(raw, 5) = INTERMEDIATE_CERTIFICATE THEN cert_by_sfid[At(raw, 1)].is_trusted ELSE None
IncludedOf(raw) == PyBool(\E c \in STATUS_COLUMNS : SameLetters(At(raw, c), INCLUDED))

CellAtItsHeader(name, cell, raw) ==
    IF RawColumnOf(name) >= 0
    THEN cell = WriteOnlyCell(SheetValueOf(RawColumnOf(name), At(raw, RawColumnOf(name))))
    ELSE IF name = X_INCLUDED THEN cell = WriteOnlyCell(IncludedOf(raw))
    ELSE IF name = X_CHAINS_UP THEN cell = WriteOnlyCell(ChainsUpOf(raw))
    ELSE IF name = X_NUMBER_OF_ITEMS THEN cell = WriteOnlyCell(NumberOfItems(raw))
    ELSE IF name = X_COUNTRY THEN cell = WriteOnlyCell(get_country_code(At(raw, 78)))
    ELSE IF name = X_CRT_SH_LINK THEN cell.hyperlink = CRT_SH_URL \o At(raw, 13)
    ELSE FALSE

\* C8: the header and every row appended for a line of 81 fields have 86 fields,
\* every raw value (canonicalized) stands under its own raw column name and every
\* derived value under its 'X-' name.
C8_RowFollowsHeader ==
    (Len(sheet) >= 2 /\ Len(sheet) = row_no) =>
        LET out == sheet[Len(sheet)]
            raw == CsvRow(csv_file[Len(sheet)])
        IN  /\ Len(header) = RAW_WIDTH + 5
            /\ Len(out) = RAW_WIDTH + 5
            /\ 0..(RAW_WIDTH - 1) \subseteq {RawColumnOf(header[p].value) : p \in DOMAIN header}
            /\ \A p \in DOMAIN header : CellAtItsHeader(header[p].value, out[p], raw)

\* C8's case: a row was appended for an intermediate with a CRL list of two items
\* and a country given by its short name.
C8_Witness ==
    /\ Len(sheet) >= 2
    /\ Len(sheet) = row_no
    /\ LET raw == CsvRow(csv_file[Len(sheet)])
       IN  /\ At(raw, 5) = INTERMEDIATE_CERTIFICATE
           /\ Len(JsonLoads(At(raw, 22))) = 2
           /\ At(raw, 78) = <<"U", "S">>
           /\ cert_by_sfid[At(raw, 1)].is_trusted = "True"
           /\ sheet[Len(sheet)][86].hyperlink = CRT_SH_URL \o At(raw, 13)

\* C9: the walk ends: from every state of the walk, the frame stack is eventually
\* empty or the 'loop detected' error is raised.
C9_WalkTerminates == (pc = "walk") ~> (hier_stack = <<>> \/ LoopError)

\* C9's case: the walk is five frames deep in a file where an id is its own
\* ancestor or stands on two lines.
C9_Witness ==
    /\ pc = "walk"
    /\ Len(hier_stack) = 5
    /\ FileHasCycle \/ Cardinality(FileIds) < Len(csv_file)

\* A step of the walk that visits a node: the stack does not shrink
IsVisit == pc = "walk" /\ pc' = "walk" /\ Len(hier_stack') >= Len(hier_stack) /\ hier_stack' # hier_stack

\* C10: a node is visited only under at most MAX_DEPTH = 7 frames; the error is raised
\* exactly when a frame of level 8 has been pushed, that is when the file has a node
\* at level 8, the forest roots being level 1; a file with no such node gets
\* through the walk.
C10_DepthGuard ==
    /\ [](pc = "walk" => Len(hier_stack) <= MAX_DEPTH + 1)
    /\ [](LoopError => /\ Len(hier_stack) = MAX_DEPTH + 1
                        /\ hier_stack[MAX_DEPTH + 1] # {}
                        /\ hier_stack[MAX_DEPTH + 1] \subseteq LevelNodes(MAX_DEPTH + 1))
    /\ [](WalkCompleted => LevelNodes(MAX_DEPTH + 1) = {})
    /\ [][IsVisit => Len(hier_stack) <= MAX_DEPTH]_vars
    /\ [][(pc = "walk" /\ Len(hier_stack) > MAX_DEPTH) => LoopError']_vars

\* C10's case: the error is raised on a chain of eight certificates, each on one
\* line and issued by the one before, with no cycle.
C10_Witness ==
    /\ LoopError
    /\ Len(csv_file) = 9
    /\ Cardinality(FileIds) = 9
    /\ ~FileHasCycle
    /\ Cardinality(FileForestRoots) = 2
====
